---- MODULE Spec2Model ----
(***************************************************************************)
(* State-machine model of src/yahoo_downloader.py: the retrying page       *)
(* request (_request_stock_data), the paginated collection                 *)
(* (_get_stock_all_tables), the cache of get_stockdata, write_csv, close,  *)
(* the batch loop yahoo_multi_download and the adjustment function         *)
(* adjust_yahoo_ohlc.                                                      *)
(*                                                                         *)
(* The program is single threaded.  A step of the model is the code that   *)
(* runs from one HTTP GET (or one call made by the user of the library)    *)
(* up to the next GET or the return of the call.  The data source and the  *)
(* network are the environment: they choose the pages of the instrument    *)
(* and the outcome of every GET.                                           *)
(***************************************************************************)
EXTENDS Integers, Sequences, FiniteSets, TLC

VARIABLES
    \* ---- one YahooJpStockHistorical object
    obj,              \* "unborn" | "live" | "invalid" (constructor raised ValueError)
    query,            \* the arguments given to the constructor
    _date_start,      \* self._date_start
    _date_end,        \* self._date_end
    _df_cached,       \* self._df_cached: <<>> is None, <<df>> a cached dataframe
    _request_session, \* self._request_session: "None" | "supplied" | "private"
    \* ---- HTTP sessions (requests.Session objects)
    supplied,         \* session handed to the object: "absent" | "open" | "closed"
    suppliedClosedBy, \* who called close()/__exit__ on that session, in order
    nPrivate,         \* number of sessions created by _request_stock_data (line 278)
    netActivity,      \* TRUE once any GET has been issued
    \* ---- the call in progress and its locals
    pc,               \* "unborn" | "dead" | "idle" | "get" on one object; in the batch
                      \* also "loop" | "constructed" | "pause" | "done" | "aborted"
    call,             \* the method called by the user: [op, force, adjust]
    calls,            \* number of method calls made so far on the object
    ret,              \* how the last call ended: [outcome, val]
    written,          \* what the last call handed to to_csv: <<>> or <<df>>
    sources,          \* the page sequences the data source may serve
    source,           \* the pages the data source serves during this collection
    p,                \* page number of _get_stock_all_tables
    table_list,       \* table_list of _get_stock_all_tables
    i,                \* loop index of _request_stock_data
    req,              \* the GETs of the current _request_stock_data call
    fetchLog,         \* pages requested by the current collection, in order
    \* ---- yahoo_multi_download
    runner,           \* "none" | "ready" | "running" | "done" | "aborted"
    symbol_list,      \* the argument
    idx,              \* position of the for loop in symbol_list (1-based)
    list_passed,
    list_failed,
    attempted,        \* symbols whose object was constructed for write_csv, in order
    outcomes,         \* how write_csv ended for each of them, in order
    request_result,   \* <<>> until the function returns, then <<dict>>
    openObjects,      \* positions in symbol_list whose object is constructed and
                      \* not yet closed
    \* ---- adjust_yahoo_ohlc called directly
    adj_in,           \* the dataframe as it was when the call was made
    adj_df,           \* the caller's dataframe
    adj_inplace,      \* the inplace argument
    adj_state,        \* "ready" | "returned" | "raised"
    adj_ret,          \* <<>> or <<returned dataframe>>
    adj_same,         \* the returned dataframe is the caller's dataframe object
    \* ---- organize_df called directly
    org_in,           \* the table handed over: [labels_std, rows]
    org_state,        \* "unused" | "ready" | "returned" | "raised"
    org_ret,          \* <<>> or <<returned dataframe>>
    org_warnings      \* the warnings issued by the call

objVars    == <<obj, query, _date_start, _date_end, _df_cached, _request_session>>
httpVars   == <<supplied, suppliedClosedBy, nPrivate, netActivity>>
callVars   == <<pc, call, calls, ret, written>>
fetchVars  == <<sources, source, p, table_list, i, req, fetchLog>>
batchVars  == <<runner, symbol_list, idx, list_passed, list_failed, attempted,
                outcomes, request_result, openObjects>>
adjVars    == <<adj_in, adj_df, adj_inplace, adj_state, adj_ret, adj_same>>
orgVars    == <<org_in, org_state, org_ret, org_warnings>>
vars       == <<objVars, httpVars, callVars, fetchVars, batchVars, adjVars, orgVars>>

-----------------------------------------------------------------------------
(* Bounds of the model and constants of the program                        *)

\* while p < 200 (line 259)
PageLimit == 200
\* self.retry_count = 2 (line 162)
retry_count == 2
\* longest explicitly listed page sequence the data source serves
MaxListed == 2
\* number of method calls made on one object
MaxCalls == 3
\* longest symbol_list given to yahoo_multi_download
MaxSymbols == 2
\* latest calendar day (as a day number) used for start, end and today
MaxDay == 2
\* most rows of a dataframe handed directly to adjust_yahoo_ohlc
MaxAdjRows == 2
\* most rows of a table handed directly to organize_df
MaxOrgRows == 3

-----------------------------------------------------------------------------
(* Numbers.  A float is modelled as a fraction [num, den] in lowest terms; *)
(* den = 0 is a non-finite float: num > 0 is inf, num < 0 is -inf and      *)
(* num = 0 is NaN (what IEEE division by zero gives).                      *)

Abs(n) == IF n < 0 THEN -n ELSE n

RECURSIVE Gcd(_, _)
Gcd(a, b) == IF b = 0 THEN a ELSE Gcd(b, a % b)

Sign(n) == IF n > 0 THEN 1 ELSE IF n < 0 THEN -1 ELSE 0

Frac(n, d) ==
    IF d = 0 THEN [num |-> Sign(n), den |-> 0]
    ELSE LET g == Gcd(Abs(n), Abs(d))
             s == Sign(d)
         IN  [num |-> s * (n \div g), den |-> s * (d \div g)]

Num(n) == Frac(n, 1)

IsFinite(x) == x.den # 0

\* float multiplication; a non-finite operand gives a non-finite result
FMul(x, y) ==
    IF IsFinite(x) /\ IsFinite(y) THEN Frac(x.num * y.num, x.den * y.den)
    ELSE IF x.num = 0 \/ y.num = 0 THEN Frac(0, 0)
    ELSE Frac(x.num * y.num, 0)

\* float division: x / 0 is inf (or NaN for 0 / 0), no exception is raised
FDiv(x, y) ==
    IF IsFinite(x) /\ IsFinite(y) THEN Frac(x.num * y.den, x.den * y.num)
    ELSE IF IsFinite(x) THEN (IF y.num = 0 THEN Frac(0, 0) ELSE Frac(0, 1))
    ELSE IF IsFinite(y) THEN Frac(x.num * (IF y.num < 0 THEN -1 ELSE 1), 0)
    ELSE Frac(0, 0)

-----------------------------------------------------------------------------
(* Dataframes.  A raw table is a sequence of rows as they stand on a page, *)
(* <<date text, open, high, low, close, volume, adjusted close>>; the date *)
(* text is modelled as <<year, month, day>>.  A dataframe is               *)
(* [columns, rows]: rows are tuples laid out as columns says.              *)

StdColumns == <<"Date", "Open", "High", "Low", "Close", "Volume", "Adj Close">>

ColIndex(columns, name) == CHOOSE k \in 1..Len(columns) : columns[k] = name

HasColumn(df, name) == \E k \in 1..Len(df.columns) : df.columns[k] = name

Cell(df, row, name) == row[ColIndex(df.columns, name)]

IsLeap(y) == (y % 4 = 0 /\ y % 100 # 0) \/ y % 400 = 0

DaysInMonth(y, m) ==
    IF m = 2 THEN (IF IsLeap(y) THEN 29 ELSE 28)
    ELSE IF m \in {4, 6, 9, 11} THEN 30 ELSE 31

\* strptime succeeds on the text only if it names a day of the calendar
Parseable(d) == d[2] \in 1..12 /\ d[3] \in 1..DaysInMonth(d[1], d[2])

\* the Timestamp of a date text, as a number ordered like the calendar
to_datetime(d) == d[1] * 10000 + d[2] * 100 + d[3]

\* the rows in ascending order of Date (the first cell), rows of equal Date in
\* the order they had: rank[k] is the place of row k in the result
StableSort(rows) ==
    LET n    == Len(rows)
        key  == SubSeq([k \in 1..n |-> rows[k][1]], 1, n)
        rank == SubSeq([k \in 1..n |->
                          Cardinality({j \in 1..n : \/ key[j] < key[k]
                                                    \/ key[j] = key[k] /\ j < k}) + 1],
                       1, n)
        at   == SubSeq([pos \in 1..n |-> CHOOSE k \in 1..n : rank[k] = pos], 1, n)
    IN  SubSeq([pos \in 1..n |-> rows[at[pos]]], 1, n)

Reverse(s) == SubSeq([k \in 1..Len(s) |-> s[Len(s) + 1 - k]], 1, Len(s))

\* the rows left in the order they have
sort_values_none(rows) == {rows}

\* df.sort_values("Date") uses quicksort: rows of equal Date may come out in
\* either relative order
sort_values(rows) == {StableSort(rows), StableSort(Reverse(rows))}

\* pd.concat(tables, ignore_index=True): the rows of the tables, in order
RECURSIVE concat(_)
concat(tables) ==
    IF tables = <<>> THEN <<>>
    ELSE IF Len(tables) = 1 THEN tables[1]
    ELSE LET h == Len(tables) \div 2
         IN  concat(SubSeq(tables, 1, h)) \o concat(SubSeq(tables, h + 1, Len(tables)))

-----------------------------------------------------------------------------
(* adjust_yahoo_ohlc (lines 31-47)                                         *)

\* the adjustment with the ratio upside down: Close / Adj Close
AdjustRowInverse(df, row) ==
    LET adj   == Cell(df, row, "Adj Close")
        close == Cell(df, row, "Close")
        new(name) ==
            IF name \in {"Open", "High", "Low"}
            THEN FDiv(FMul(Cell(df, row, name), close), adj)
            ELSE IF name = "Close" THEN adj
            ELSE Cell(df, row, name)
        kept  == SelectSeq(df.columns, LAMBDA c : c # "Adj Close")
    IN  [k \in 1..Len(kept) |-> new(kept[k])]

\* the row of the adjusted frame: lines 42-46
AdjustRow(df, row) ==
    LET adj   == Cell(df, row, "Adj Close")
        close == Cell(df, row, "Close")
        new(name) ==
            IF name \in {"Open", "High", "Low"}
            THEN FDiv(FMul(Cell(df, row, name), adj), close)
            ELSE IF name = "Close" THEN adj
            ELSE Cell(df, row, name)
        kept  == SelectSeq(df.columns, LAMBDA c : c # "Adj Close")
    IN  [k \in 1..Len(kept) |-> new(kept[k])]

\* the dataframe after lines 42-46
Adjusted(df) ==
    [columns |-> SelectSeq(df.columns, LAMBDA c : c # "Adj Close"),
     rows    |-> [k \in 1..Len(df.rows) |-> AdjustRow(df, df.rows[k])]]

\* adjust_yahoo_ohlc without the copy of lines 40-41
adjust_yahoo_ohlc_nocopy(df, inplace) ==
    IF ~HasColumn(df, "Adj Close")
    THEN [exc |-> "KeyError", ret |-> df, arg |-> df, same |-> TRUE]
    ELSE [exc |-> "none", ret |-> Adjusted(df), arg |-> Adjusted(df), same |-> TRUE]

\* adjust_yahoo_ohlc(df, inplace): exc is the exception raised ("none" when it
\* returns), ret the returned frame, arg the caller's frame after the call,
\* same whether the function worked on the caller's object (lines 40-41).
\* df["Adj Close"] raises KeyError on a frame without that column; the
\* divisions raise nothing.
adjust_yahoo_ohlc(df, inplace) ==
    IF ~HasColumn(df, "Adj Close")
    THEN [exc |-> "KeyError", ret |-> df, arg |-> df, same |-> inplace]
    ELSE [exc |-> "none", ret |-> Adjusted(df),
          arg |-> IF inplace THEN Adjusted(df) ELSE df, same |-> inplace]

-----------------------------------------------------------------------------
(* organize_df (lines 216-226)                                             *)

\* line 225 on one row: the date text becomes a Timestamp
ParseRow(r) == [r EXCEPT ![1] = to_datetime(r[1])]

\* organize_df(df): the set of frames it may return; empty when pd.to_datetime
\* raises ValueError on a date text that is no date
organize_df(raw) ==
    IF \E k \in 1..Len(raw) : ~Parseable(raw[k][1]) THEN {}
    ELSE {[columns |-> StdColumns, rows |-> s] :
              s \in sort_values([k \in 1..Len(raw) |-> ParseRow(raw[k])])}

\* a table handed to organize_df: whether its column labels are the standard
\* Japanese ones, and its rows
NoTable == [labels_std |-> TRUE, rows |-> <<>>]

\* a null cell is NaN
IsNull(x) == x.den = 0

\* lines 219-222: the warnings organize_df issues before it converts the dates
organize_warnings(t) ==
    (IF ~t.labels_std THEN {"column labels"} ELSE {})
    \cup (IF \E k \in 1..Len(t.rows) : \E c \in {2, 3, 4, 5, 7} : IsNull(t.rows[k][c])
          THEN {"null data"} ELSE {})

-----------------------------------------------------------------------------
(* The data source: the pages of one instrument                             *)

rA == <<<<2017, 1, 5>>, Num(100), Num(110), Num(90), Num(100), 1000, Num(95)>>
rB == <<<<2017, 1, 4>>, Num(98), Num(102), Num(96), Num(100), 1200, Num(100)>>
rC == <<<<2016, 12, 30>>, Num(50), Num(60), Num(40), Num(50), 900, Num(25)>>
rBad == <<<<2017, 13, 1>>, Num(1), Num(1), Num(1), Num(1), 1, Num(1)>>

\* the non-empty pages a listed source may serve (newest rows first)
PageSet == {<<rA, rB>>, <<rC>>}

RECURSIVE SeqsUpTo(_, _)
SeqsUpTo(S, n) ==
    IF n = 0 THEN {<<>>}
    ELSE LET shorter == SeqsUpTo(S, n - 1)
         IN  shorter \cup {Append(s, x) : s \in {t \in shorter : Len(t) = n - 1}, x \in S}

\* A source serves its listed pages, then `tail` generated one-row pages, then
\* empty tables.
ListedSources ==
    {[pages |-> ps, tail |-> 0] : ps \in SeqsUpTo(PageSet, MaxListed)}
    \cup {[pages |-> <<<<rA, rB>>, <<rBad>>>>, tail |-> 0]}

\* the sources served to a sequence of calls: no row at all, one page, two
\* pages, and a page with a date text that is no date
CallSources ==
    {[pages |-> ps, tail |-> 0] :
        ps \in {<<>>, <<<<rC>>>>, <<<<rA, rB>>, <<rC>>>>, <<<<rA, rB>>, <<rBad>>>>}}

\* sources that end just below, at and above the page limit of the collection
LongSources ==
    {[pages |-> <<>>, tail |-> t] : t \in {PageLimit - 2, PageLimit - 1, PageLimit}}

NoSource == [pages |-> <<>>, tail |-> 0]

\* number of non-empty pages of a source
NonEmptyPages(src) == Len(src.pages) + src.tail

\* the one row of generated page pp: one trading day per page, newest first
GenRow(pp) ==
    LET k == 2 * PageLimit - pp
    IN  <<<<2000 + (k \div 336), ((k \div 28) % 12) + 1, (k % 28) + 1>>,
          Num(10), Num(12), Num(8), Num(10), 100 + pp, Num(5)>>

\* the rows of the table on page pp
PageRows(src, pp) ==
    IF pp <= Len(src.pages) THEN src.pages[pp]
    ELSE IF pp <= NonEmptyPages(src) THEN <<GenRow(pp)>>
    ELSE <<>>

-----------------------------------------------------------------------------
(* YahooJpStockHistorical: construction and close                          *)

NoDate == 0
Today == MaxDay
Dates == 1..MaxDay
Queries ==
    [start : {NoDate} \cup Dates, end : {NoDate} \cup Dates, period_days : {0, 1}]
NoQuery == [start |-> NoDate, end |-> NoDate, period_days |-> 0]

\* lines 145-148: end = end or today; start = start or (end - period_days)
EffectiveEnd(q) == IF q.end = NoDate THEN Today ELSE q.end
EffectiveStart(q) ==
    IF q.start = NoDate THEN EffectiveEnd(q) - q.period_days ELSE q.start

\* the test of the dates with < in place of <=
InvalidQueryStrict(q) == EffectiveEnd(q) < EffectiveStart(q)

\* line 152: the constructor raises ValueError
InvalidQuery(q) == EffectiveEnd(q) <= EffectiveStart(q)

\* close() that also closes the session the object holds
closeAlsoSession ==
    [_request_session |-> "None", _df_cached |-> <<>>,
     supplied |-> IF _request_session = "supplied" THEN "closed" ELSE supplied,
     suppliedClosedBy |-> IF _request_session = "supplied"
                          THEN Append(suppliedClosedBy, "YahooJpStockHistorical")
                          ELSE suppliedClosedBy]

\* close() (lines 327-329): the fields of the object and the state of the
\* session it was given, after the call
close ==
    [_request_session |-> "None", _df_cached |-> <<>>,
     supplied |-> supplied, suppliedClosedBy |-> suppliedClosedBy]

\* leaving the with block without closing the object
exitNoClose ==
    [_request_session |-> _request_session, _df_cached |-> _df_cached,
     supplied |-> supplied, suppliedClosedBy |-> suppliedClosedBy, closed |-> FALSE]

\* __exit__ (lines 170-176) calls close(): the fields after it, and whether the
\* object has been closed
__exit__ ==
    [_request_session |-> close._request_session, _df_cached |-> close._df_cached,
     supplied |-> close.supplied, suppliedClosedBy |-> close.suppliedClosedBy,
     closed |-> TRUE]

\* an object without a session taking up again the session it was given
EnsureSessionReuse(rs) ==
    IF rs = "None" THEN (IF supplied = "open" THEN "supplied" ELSE "private") ELSE rs

\* lines 277-278: a session is created only when the object holds none
EnsureSession(rs) == IF rs = "None" THEN "private" ELSE rs

-----------------------------------------------------------------------------
(* The end of a call.  loc holds the locals of the collection as they are  *)
(* when the call ends: [p, table_list, i, req, fetchLog].                  *)

\* a _request_stock_data call: the page asked for, the outcome of each GET, the
\* number of table.boardFin elements in the page received (-1: none received)
\* and how the call ended
NoReq == [page |-> 0, statuses |-> <<>>, tables |-> -1, result |-> "none"]
NoLocals == [p |-> 0, table_list |-> <<>>, i |-> 0, req |-> NoReq, fetchLog |-> <<>>]
NoCall == [op |-> "none", force |-> FALSE, adjust |-> FALSE]

SetLocals(loc) ==
    /\ p' = loc.p
    /\ table_list' = loc.table_list
    /\ i' = loc.i
    /\ req' = loc.req
    /\ fetchLog' = loc.fetchLog

\* the except clauses without the one for IOError
CaughtOnlyTimeout(exc) == exc = "Timeout"

\* the exceptions that `except requests.exceptions.Timeout` (line 96) and
\* `except IOError` (line 100) catch
Caught(exc) == exc \in {"Timeout", "NetworkFailure", "FormatMismatch"}

\* The method called by the user returns (exc = "ok") or raises exc, with the
\* cache and the last csv as given.  On a single object the user gets the
\* outcome; in yahoo_multi_download lines 95-104 and __exit__ (170-176) follow.
Finish(c, exc, val, cache, wr, loc) ==
    /\ SetLocals(loc)
    /\ ret' = [outcome |-> exc, val |-> val]
    /\ written' = wr
    /\ nPrivate' = nPrivate
    /\ IF runner = "none"
       THEN /\ pc' = "idle"
            /\ _df_cached' = cache
            /\ _request_session' = _request_session
            /\ UNCHANGED <<supplied, suppliedClosedBy, batchVars>>
       ELSE \* __exit__ calls close() whatever happened in the with block
            /\ _df_cached' = __exit__._df_cached
            /\ _request_session' = __exit__._request_session
            /\ openObjects' = IF __exit__.closed THEN openObjects \ {idx}
                              ELSE openObjects
            /\ UNCHANGED <<symbol_list, idx, attempted>>
            /\ outcomes' = Append(outcomes, exc)
            /\ IF exc = "ok" \/ Caught(exc)
               THEN /\ pc' = "pause"
                    /\ runner' = runner
                    /\ list_passed' = IF exc = "ok"
                                      THEN Append(list_passed, symbol_list[idx])
                                      ELSE list_passed
                    /\ list_failed' = IF exc = "ok"
                                      THEN list_failed
                                      ELSE Append(list_failed, symbol_list[idx])
                    /\ supplied' = __exit__.supplied
                    /\ suppliedClosedBy' = __exit__.suppliedClosedBy
                    /\ request_result' = request_result
               ELSE \* the exception leaves both with blocks: line 88 closes s
                    /\ pc' = "aborted"
                    /\ runner' = "aborted"
                    /\ supplied' = "closed"
                    /\ suppliedClosedBy' =
                           Append(__exit__.suppliedClosedBy, "yahoo_multi_download")
                    /\ UNCHANGED <<list_passed, list_failed, request_result>>

\* write_csv adjusting the frame that get_stockdata returned in place
AfterGetInplace(c, df, loc) ==
    IF c.op = "get_stockdata"
    THEN Finish(c, "ok", <<df>>, <<df>>, <<>>, loc)
    ELSE LET a == IF c.adjust THEN adjust_yahoo_ohlc(df, TRUE)
                  ELSE [exc |-> "none", ret |-> df, arg |-> df, same |-> TRUE]
         IN  IF a.exc = "none"
             THEN Finish(c, "ok", <<>>, <<a.arg>>, <<a.ret>>, loc)
             ELSE Finish(c, a.exc, <<>>, <<a.arg>>, <<>>, loc)

\* get_stockdata returned df, which is the cached frame itself (line 214);
\* write_csv goes on with lines 304-306
AfterGet(c, df, loc) ==
    IF c.op = "get_stockdata"
    THEN Finish(c, "ok", <<df>>, <<df>>, <<>>, loc)
    ELSE LET a == IF c.adjust THEN adjust_yahoo_ohlc(df, FALSE)
                  ELSE [exc |-> "none", ret |-> df, arg |-> df, same |-> TRUE]
         IN  IF a.exc = "none"
             THEN Finish(c, "ok", <<>>, <<a.arg>>, <<a.ret>>, loc)
             ELSE Finish(c, a.exc, <<>>, <<a.arg>>, <<>>, loc)

\* the exception swallowed and the pages collected so far returned
RaisedPartial(c, exc, loc) ==
    LET df == [columns |-> StdColumns, rows |-> concat(loc.table_list)]
    IN  Finish(c, "ok", <<df>>, <<df>>, <<>>, loc)

\* the cache emptied when an exception leaves get_stockdata
RaisedDropsCache(c, exc, loc) == Finish(c, exc, <<>>, <<>>, <<>>, loc)

\* an exception leaves get_stockdata: the cache is as it was
Raised(c, exc, loc) == Finish(c, exc, <<>>, _df_cached, <<>>, loc)

\* line 270 and lines 213-214: pd.concat raises ValueError on an empty list,
\* organize_df raises ValueError on a date text that is no date
Collected(c, loc) ==
    IF loc.table_list = <<>> THEN Raised(c, "ValueError", loc)
    ELSE LET frames == organize_df(concat(loc.table_list))
         IN  IF frames = {} THEN Raised(c, "ValueError", loc)
             ELSE \E df \in frames : AfterGet(c, df, loc)

\* the loop test with the limit one page too low
InLoopOffByOne(pp) == pp < PageLimit - 1

\* line 259: the loop test of _get_stock_all_tables
InLoop(pp) == pp < PageLimit

\* the retry loop running once too often
RetryRangeOneMore == 0..(retry_count + 1)

\* range(self.retry_count + 1) (line 282)
RetryRange == 0..retry_count

\* the loop without its page guard
LoopTopNoGuard(c, pp, tl, log, r) ==
    /\ pc' = "get"
    /\ SetLocals([p |-> pp, table_list |-> tl, i |-> 0,
                  req |-> [page |-> pp, statuses |-> <<>>, tables |-> -1,
                           result |-> "running"],
                  fetchLog |-> Append(log, pp)])
    /\ ret' = [outcome |-> "running", val |-> <<>>]
    /\ _request_session' = EnsureSession(_request_session)
    /\ nPrivate' = IF _request_session = "None" THEN nPrivate + 1 ELSE nPrivate
    /\ written' = <<>>
    /\ UNCHANGED <<_df_cached, supplied, suppliedClosedBy, batchVars>>

\* lines 259-263 and 277-282: the loop goes on to page pp and
\* _request_stock_data is about to issue its first GET, or the loop is left.
\* r is the request that just ended (NoReq when the collection starts).
LoopTop(c, pp, tl, log, r) ==
    IF InLoop(pp)
    THEN /\ pc' = "get"
         /\ SetLocals([p |-> pp, table_list |-> tl, i |-> 0,
                       req |-> [page |-> pp, statuses |-> <<>>, tables |-> -1,
                                result |-> "running"],
                       fetchLog |-> Append(log, pp)])
         /\ ret' = [outcome |-> "running", val |-> <<>>]
         /\ _request_session' = EnsureSession(_request_session)
         /\ nPrivate' = IF _request_session = "None" THEN nPrivate + 1 ELSE nPrivate
         /\ written' = <<>>
         /\ UNCHANGED <<_df_cached, supplied, suppliedClosedBy, batchVars>>
    ELSE Collected(c, [p |-> pp, table_list |-> tl, i |-> i, req |-> r,
                       fetchLog |-> log])

\* the locals as they stand, with the current request replaced by r
Locals(r) ==
    [p |-> p, table_list |-> table_list, i |-> i, req |-> r, fetchLog |-> fetchLog]

-----------------------------------------------------------------------------
(* One GET of _request_stock_data (line 284) and the code that follows it  *)
(* up to the next GET or the end of the call                               *)

\* the GET returns a status other than 200: lines 285-289
GetBadStatus ==
    /\ pc = "get"
    /\ netActivity' = TRUE
    /\ UNCHANGED <<obj, query, _date_start, _date_end, call, calls, sources, source,
                   adjVars, orgVars>>
    /\ LET r == [req EXCEPT !.statuses = Append(@, "bad")]
       IN  IF i + 1 \in RetryRange
           THEN /\ i' = i + 1
                /\ req' = r
                /\ UNCHANGED <<pc, p, table_list, fetchLog, ret, written,
                               nPrivate, _df_cached, _request_session, supplied,
                               suppliedClosedBy, batchVars>>
           ELSE Raised(call, "NetworkFailure",
                       Locals([r EXCEPT !.result = "NetworkFailure"]))

\* the timeout caught inside the retry loop and treated like a bad status
GetTimeoutRetried ==
    /\ pc = "get"
    /\ netActivity' = TRUE
    /\ UNCHANGED <<obj, query, _date_start, _date_end, call, calls, sources, source,
                   adjVars, orgVars>>
    /\ LET r == [req EXCEPT !.statuses = Append(@, "timeout")]
       IN  IF i + 1 \in RetryRange
           THEN /\ i' = i + 1
                /\ req' = r
                /\ UNCHANGED <<pc, p, table_list, fetchLog, ret, written,
                               nPrivate, _df_cached, _request_session, supplied,
                               suppliedClosedBy, batchVars>>
           ELSE Raised(call, "NetworkFailure",
                       Locals([r EXCEPT !.result = "NetworkFailure"]))

\* the GET does not answer within request_timeout: s.get raises
\* requests.exceptions.Timeout, which nothing in the class catches
GetTimeout ==
    /\ pc = "get"
    /\ netActivity' = TRUE
    /\ UNCHANGED <<obj, query, _date_start, _date_end, call, calls, sources, source,
                   adjVars, orgVars>>
    /\ Raised(call, "Timeout",
              Locals([req EXCEPT !.statuses = Append(@, "timeout"),
                                 !.result = "Timeout"]))

\* the GET returns status 200 (line 286); the page holds nTables elements
\* table.boardFin (lines 236-245); then lines 265-269
GetOk(nTables) ==
    /\ pc = "get"
    /\ netActivity' = TRUE
    /\ UNCHANGED <<obj, query, _date_start, _date_end, call, calls, sources, source,
                   adjVars, orgVars>>
    /\ LET r == [req EXCEPT !.statuses = Append(@, "ok"), !.tables = nTables,
                            !.result = "ok"]
           df_table == PageRows(source, p)
       IN  IF nTables # 1 THEN Raised(call, "FormatMismatch", Locals(r))
           ELSE IF Len(df_table) = 0 THEN Collected(call, Locals(r))
           ELSE LoopTop(call, p + 1, Append(table_list, df_table), fetchLog, r)

-----------------------------------------------------------------------------
(* The methods of one object, called by the user of the library            *)

\* __init__ (lines 144-164) with the given arguments
Construct(q, withSession) ==
    /\ pc = "unborn"
    /\ runner = "none"
    /\ query' = q
    /\ _date_start' = EffectiveStart(q)
    /\ _date_end' = EffectiveEnd(q)
    /\ supplied' = IF withSession THEN "open" ELSE "absent"
    /\ IF InvalidQuery(q)
       THEN /\ obj' = "invalid"
            /\ pc' = "dead"
            /\ UNCHANGED <<_df_cached, _request_session>>
       ELSE /\ obj' = "live"
            /\ pc' = "idle"
            /\ _df_cached' = <<>>
            /\ _request_session' = IF withSession THEN "supplied" ELSE "None"
    /\ UNCHANGED <<suppliedClosedBy, nPrivate, netActivity, call, calls, ret, written,
                   fetchVars, batchVars, adjVars, orgVars>>

\* get_stockdata that looks at the cache alone and not at force_request
StartGetIgnoreForce(c) ==
    IF _df_cached = <<>>
    THEN \E src \in sources :
            /\ source' = src
            /\ LoopTop(c, 1, <<>>, <<>>, NoReq)
    ELSE /\ source' = NoSource
         /\ AfterGet(c, _df_cached[1], NoLocals)

\* the start of get_stockdata as called from c (lines 210-212)
StartGet(c) ==
    IF _df_cached = <<>> \/ c.force
    THEN \E src \in sources :
            /\ source' = src
            /\ LoopTop(c, 1, <<>>, <<>>, NoReq)
    ELSE /\ source' = NoSource
         /\ AfterGet(c, _df_cached[1], NoLocals)

\* get_stockdata(force_request) (lines 199-214)
get_stockdata(force_request) ==
    /\ pc = "idle"
    /\ runner = "none"
    /\ calls < MaxCalls
    /\ calls' = calls + 1
    /\ call' = [op |-> "get_stockdata", force |-> force_request, adjust |-> FALSE]
    /\ StartGet(call')
    /\ UNCHANGED <<obj, query, _date_start, _date_end, netActivity, sources, adjVars, orgVars>>

\* write_csv(adjust_ohlc) (lines 291-306); line 303 calls get_stockdata()
write_csv(adjust_ohlc) ==
    /\ pc = "idle"
    /\ runner = "none"
    /\ calls < MaxCalls
    /\ calls' = calls + 1
    /\ call' = [op |-> "write_csv", force |-> FALSE, adjust |-> adjust_ohlc]
    /\ StartGet(call')
    /\ UNCHANGED <<obj, query, _date_start, _date_end, netActivity, sources, adjVars, orgVars>>

\* close() called by the user (lines 327-329)
CallClose ==
    /\ pc = "idle"
    /\ runner = "none"
    /\ calls < MaxCalls
    /\ calls' = calls + 1
    /\ call' = [op |-> "close", force |-> FALSE, adjust |-> FALSE]
    /\ _request_session' = close._request_session
    /\ _df_cached' = close._df_cached
    /\ supplied' = close.supplied
    /\ suppliedClosedBy' = close.suppliedClosedBy
    /\ ret' = [outcome |-> "ok", val |-> <<>>]
    /\ source' = NoSource
    /\ SetLocals(NoLocals)
    /\ written' = <<>>
    /\ UNCHANGED <<obj, query, _date_start, _date_end, nPrivate, netActivity, pc,
                   sources, batchVars, adjVars, orgVars>>

-----------------------------------------------------------------------------
(* One object used by a caller: constructed, then any sequence of calls     *)

Init ==
    /\ obj = "unborn" /\ query = NoQuery
    /\ _date_start = NoDate /\ _date_end = NoDate
    /\ _df_cached = <<>> /\ _request_session = "None"
    /\ supplied = "absent" /\ suppliedClosedBy = <<>>
    /\ nPrivate = 0 /\ netActivity = FALSE
    /\ pc = "unborn" /\ call = NoCall /\ calls = 0
    /\ ret = [outcome |-> "none", val |-> <<>>] /\ written = <<>>
    /\ sources = CallSources /\ source = NoSource
    /\ p = 0 /\ table_list = <<>> /\ i = 0 /\ req = NoReq
    /\ fetchLog = <<>>
    /\ runner = "none" /\ symbol_list = <<>> /\ idx = 0
    /\ list_passed = <<>> /\ list_failed = <<>> /\ attempted = <<>>
    /\ outcomes = <<>>
    /\ request_result = <<>> /\ openObjects = {}
    /\ adj_in = [columns |-> <<>>, rows |-> <<>>]
    /\ adj_df = [columns |-> <<>>, rows |-> <<>>] /\ adj_inplace = FALSE
    /\ adj_state = "unused" /\ adj_ret = <<>> /\ adj_same = FALSE
    /\ org_in = NoTable /\ org_state = "unused" /\ org_ret = <<>> /\ org_warnings = {}

Next ==
    \/ \E q \in Queries, withSession \in BOOLEAN : Construct(q, withSession)
    \/ \E force_request \in BOOLEAN : get_stockdata(force_request)
    \/ \E adjust_ohlc \in BOOLEAN : write_csv(adjust_ohlc)
    \/ CallClose
    \/ GetBadStatus
    \/ GetTimeout
    \/ \E nTables \in 0..2 : GetOk(nTables)

Spec == Init /\ [][Next]_vars

-----------------------------------------------------------------------------
(* One collection on a constructed object, from sources of every length     *)

InitCollect ==
    /\ obj = "live" /\ query = [start |-> 1, end |-> 2, period_days |-> 1]
    /\ _date_start = 1 /\ _date_end = 2
    /\ _df_cached = <<>>
    /\ \/ _request_session = "None" /\ supplied = "absent"
       \/ _request_session = "supplied" /\ supplied = "open"
    /\ suppliedClosedBy = <<>>
    /\ nPrivate = 0 /\ netActivity = FALSE
    /\ pc = "idle" /\ call = NoCall /\ calls = MaxCalls - 1
    /\ ret = [outcome |-> "none", val |-> <<>>] /\ written = <<>>
    /\ sources = ListedSources \cup LongSources /\ source = NoSource
    /\ p = 0 /\ table_list = <<>> /\ i = 0 /\ req = NoReq
    /\ fetchLog = <<>>
    /\ runner = "none" /\ symbol_list = <<>> /\ idx = 0
    /\ list_passed = <<>> /\ list_failed = <<>> /\ attempted = <<>>
    /\ outcomes = <<>>
    /\ request_result = <<>> /\ openObjects = {}
    /\ adj_in = [columns |-> <<>>, rows |-> <<>>]
    /\ adj_df = [columns |-> <<>>, rows |-> <<>>] /\ adj_inplace = FALSE
    /\ adj_state = "unused" /\ adj_ret = <<>> /\ adj_same = FALSE
    /\ org_in = NoTable /\ org_state = "unused" /\ org_ret = <<>> /\ org_warnings = {}

NextCollect ==
    \/ \E force_request \in BOOLEAN : get_stockdata(force_request)
    \/ GetBadStatus
    \/ GetTimeout
    \/ \E nTables \in 0..2 : GetOk(nTables)

SpecCollect == InitCollect /\ [][NextCollect]_vars

\* line 284: s.get(url, timeout=self.request_timeout) returns a response or
\* raises
GetReturns ==
    \/ GetBadStatus
    \/ GetTimeout
    \/ \E nTables \in 0..2 : GetOk(nTables)

\* the collection when every GET issued returns or raises
SpecCollectFair == SpecCollect /\ WF_vars(GetReturns)

-----------------------------------------------------------------------------
(* yahoo_multi_download (lines 82-108)                                      *)

SymbolSet == {7203, 9020}

\* lines 85-88: the lists are created and `with requests.Session() as s` opens
\* the session all instruments share
BatchStart(list, q) ==
    /\ pc = "unborn"
    /\ runner = "ready"
    /\ symbol_list' = list
    /\ query' = q
    /\ runner' = "running"
    /\ pc' = "loop"
    /\ idx' = 1
    /\ list_passed' = <<>>
    /\ list_failed' = <<>>
    /\ supplied' = "open"
    /\ UNCHANGED <<obj, _date_start, _date_end, _df_cached, _request_session,
                   suppliedClosedBy, nPrivate, netActivity, call, calls, ret, written,
                   fetchVars, attempted, outcomes, request_result, openObjects,
                   adjVars, orgVars>>

\* line 89: the for loop takes the next symbol and lines 90-92 construct its
\* object with request_session=s, or the loop has ended and lines 88, 106-108
\* close s and return the result
BatchIter ==
    /\ pc = "loop"
    /\ UNCHANGED <<query, nPrivate, netActivity, call, calls, ret, written, fetchVars,
                   symbol_list, idx, list_passed, list_failed, outcomes, adjVars, orgVars>>
    /\ IF idx > Len(symbol_list)
       THEN /\ pc' = "done"
            /\ runner' = "done"
            /\ supplied' = "closed"
            /\ suppliedClosedBy' = Append(suppliedClosedBy, "yahoo_multi_download")
            /\ request_result' = <<[request |-> symbol_list, passed |-> list_passed,
                                    failed |-> list_failed]>>
            /\ UNCHANGED <<obj, _date_start, _date_end, _df_cached, _request_session,
                           attempted, openObjects>>
       ELSE /\ _date_start' = EffectiveStart(query)
            /\ _date_end' = EffectiveEnd(query)
            /\ request_result' = request_result
            /\ IF InvalidQuery(query)
               THEN \* ValueError leaves the with block of line 88, which closes s
                    /\ obj' = "invalid"
                    /\ pc' = "aborted"
                    /\ runner' = "aborted"
                    /\ supplied' = "closed"
                    /\ suppliedClosedBy' =
                           Append(suppliedClosedBy, "yahoo_multi_download")
                    /\ UNCHANGED <<_df_cached, _request_session, attempted,
                                   openObjects>>
               ELSE /\ obj' = "live"
                    /\ pc' = "constructed"
                    /\ runner' = runner
                    /\ _df_cached' = <<>>
                    /\ _request_session' = "supplied"
                    /\ attempted' = Append(attempted, symbol_list[idx])
                    /\ openObjects' = openObjects \cup {idx}
                    /\ UNCHANGED <<supplied, suppliedClosedBy>>

\* line 94: ystock.write_csv(filename=filename), adjust_ohlc left at True
BatchWriteCsv ==
    /\ pc = "constructed"
    /\ call' = [op |-> "write_csv", force |-> FALSE, adjust |-> TRUE]
    /\ StartGet(call')
    /\ UNCHANGED <<obj, query, _date_start, _date_end, netActivity, calls, sources,
                   adjVars, orgVars>>

\* line 104: time.sleep(pause) returns and the loop goes to the next symbol
BatchPause ==
    /\ pc = "pause"
    /\ pc' = "loop"
    /\ idx' = idx + 1
    /\ UNCHANGED <<objVars, httpVars, call, calls, ret, written, fetchVars, runner,
                   symbol_list, list_passed, list_failed, attempted, outcomes,
                   request_result, openObjects, adjVars, orgVars>>

InitBatch ==
    /\ obj = "unborn" /\ query = NoQuery
    /\ _date_start = NoDate /\ _date_end = NoDate
    /\ _df_cached = <<>> /\ _request_session = "None"
    /\ supplied = "absent" /\ suppliedClosedBy = <<>>
    /\ nPrivate = 0 /\ netActivity = FALSE
    /\ pc = "unborn" /\ call = NoCall /\ calls = 0
    /\ ret = [outcome |-> "none", val |-> <<>>] /\ written = <<>>
    /\ sources = CallSources /\ source = NoSource
    /\ p = 0 /\ table_list = <<>> /\ i = 0 /\ req = NoReq
    /\ fetchLog = <<>>
    /\ runner = "ready" /\ symbol_list = <<>> /\ idx = 0
    /\ list_passed = <<>> /\ list_failed = <<>> /\ attempted = <<>>
    /\ outcomes = <<>>
    /\ request_result = <<>> /\ openObjects = {}
    /\ adj_in = [columns |-> <<>>, rows |-> <<>>]
    /\ adj_df = [columns |-> <<>>, rows |-> <<>>] /\ adj_inplace = FALSE
    /\ adj_state = "unused" /\ adj_ret = <<>> /\ adj_same = FALSE
    /\ org_in = NoTable /\ org_state = "unused" /\ org_ret = <<>> /\ org_warnings = {}

NextBatch ==
    \/ \E list \in SeqsUpTo(SymbolSet, MaxSymbols), q \in Queries : BatchStart(list, q)
    \/ BatchIter
    \/ BatchWriteCsv
    \/ BatchPause
    \/ GetBadStatus
    \/ GetTimeout
    \/ \E nTables \in 0..2 : GetOk(nTables)

SpecBatch == InitBatch /\ [][NextBatch]_vars

-----------------------------------------------------------------------------
(* adjust_yahoo_ohlc called directly on a dataframe                         *)

AdjRowSet ==
    {<<20170105, o, Num(110), Num(90), c, 1000, a>> :
        o \in {Num(0), Num(100)}, c \in {Num(0), Num(100)},
        a \in {Num(0), Num(95), Num(100)}}

\* frames as get_stockdata returns them, and one frame already adjusted
AdjInputs ==
    {[columns |-> StdColumns, rows |-> rs] : rs \in SeqsUpTo(AdjRowSet, MaxAdjRows)}
    \cup {Adjusted([columns |-> StdColumns,
                    rows |-> <<<<20170105, Num(100), Num(110), Num(90), Num(100),
                                 1000, Num(95)>>>>])}

AdjustCall ==
    /\ adj_state = "ready"
    /\ LET a == adjust_yahoo_ohlc(adj_df, adj_inplace)
       IN  /\ adj_state' = IF a.exc = "none" THEN "returned" ELSE "raised"
           /\ adj_ret' = IF a.exc = "none" THEN <<a.ret>> ELSE <<>>
           /\ adj_same' = (a.exc = "none" /\ a.same)
           /\ adj_df' = a.arg
    /\ UNCHANGED <<adj_in, adj_inplace, objVars, httpVars, callVars, fetchVars,
                   batchVars, orgVars>>

InitAdjust ==
    /\ obj = "unborn" /\ query = NoQuery
    /\ _date_start = NoDate /\ _date_end = NoDate
    /\ _df_cached = <<>> /\ _request_session = "None"
    /\ supplied = "absent" /\ suppliedClosedBy = <<>>
    /\ nPrivate = 0 /\ netActivity = FALSE
    /\ pc = "unborn" /\ call = NoCall /\ calls = 0
    /\ ret = [outcome |-> "none", val |-> <<>>] /\ written = <<>>
    /\ sources = CallSources /\ source = NoSource
    /\ p = 0 /\ table_list = <<>> /\ i = 0 /\ req = NoReq
    /\ fetchLog = <<>>
    /\ runner = "none" /\ symbol_list = <<>> /\ idx = 0
    /\ list_passed = <<>> /\ list_failed = <<>> /\ attempted = <<>>
    /\ outcomes = <<>>
    /\ request_result = <<>> /\ openObjects = {}
    /\ adj_in \in AdjInputs
    /\ adj_df = adj_in
    /\ adj_inplace \in BOOLEAN
    /\ adj_state = "ready" /\ adj_ret = <<>> /\ adj_same = FALSE
    /\ org_in = NoTable /\ org_state = "unused" /\ org_ret = <<>> /\ org_warnings = {}

NextAdjust == AdjustCall

SpecAdjust == InitAdjust /\ [][NextAdjust]_vars

-----------------------------------------------------------------------------
(* organize_df called directly on a table                                   *)

\* a second record of the day of rA, and a record with a null Open
rD == <<<<2017, 1, 5>>, Num(101), Num(111), Num(91), Num(101), 1100, Num(96)>>
rNull == <<<<2017, 1, 6>>, Frac(0, 0), Num(3), Num(1), Num(2), 10, Num(2)>>

OrgRowSet == {rA, rB, rD, rBad, rNull}

OrgInputs ==
    [labels_std : BOOLEAN, rows : SeqsUpTo(OrgRowSet, MaxOrgRows)]

OrganizeCall ==
    /\ org_state = "ready"
    /\ org_warnings' = organize_warnings(org_in)
    /\ LET frames == organize_df(org_in.rows)
       IN  IF frames = {}
           THEN org_state' = "raised" /\ org_ret' = <<>>
           ELSE \E df \in frames : org_state' = "returned" /\ org_ret' = <<df>>
    /\ UNCHANGED <<org_in, objVars, httpVars, callVars, fetchVars, batchVars, adjVars>>

InitOrganize ==
    /\ obj = "unborn" /\ query = NoQuery
    /\ _date_start = NoDate /\ _date_end = NoDate
    /\ _df_cached = <<>> /\ _request_session = "None"
    /\ supplied = "absent" /\ suppliedClosedBy = <<>>
    /\ nPrivate = 0 /\ netActivity = FALSE
    /\ pc = "unborn" /\ call = NoCall /\ calls = 0
    /\ ret = [outcome |-> "none", val |-> <<>>] /\ written = <<>>
    /\ sources = CallSources /\ source = NoSource
    /\ p = 0 /\ table_list = <<>> /\ i = 0 /\ req = NoReq
    /\ fetchLog = <<>>
    /\ runner = "none" /\ symbol_list = <<>> /\ idx = 0
    /\ list_passed = <<>> /\ list_failed = <<>> /\ attempted = <<>>
    /\ outcomes = <<>>
    /\ request_result = <<>> /\ openObjects = {}
    /\ adj_in = [columns |-> <<>>, rows |-> <<>>]
    /\ adj_df = [columns |-> <<>>, rows |-> <<>>] /\ adj_inplace = FALSE
    /\ adj_state = "unused" /\ adj_ret = <<>> /\ adj_same = FALSE
    /\ org_in \in OrgInputs
    /\ org_state = "ready" /\ org_ret = <<>> /\ org_warnings = {}

NextOrganize == OrganizeCall

SpecOrganize == InitOrganize /\ [][NextOrganize]_vars

-----------------------------------------------------------------------------
(* Properties of one collection (SpecCollect)                               *)

\* index of the first empty page of a source
FirstEmpty(src) == NonEmptyPages(src) + 1

\* no _request_stock_data call and no table extraction of the call has failed
NoFetchFailure == ret.outcome \notin {"NetworkFailure", "FormatMismatch", "Timeout"}

\* the tables of pages 1..n of the source of the collection
PagesUpTo(n) == [j \in 1..n |-> PageRows(source, j)]

\* C1: when the first empty page of the source is page k, 2 <= k < 200, the
\* collection requests pages 1, 2, ... in increasing order and never a page
\* beyond k; table_list holds the tables of the pages requested so far, in page
\* order; and a collection in which no request and no extraction failed has
\* requested exactly pages 1..k and hands on the concatenation of the rows of
\* pages 1..k-1, which is what get_stockdata organises and returns.
C1_PagesInOrder ==
    LET k == FirstEmpty(source)
    IN  (fetchLog # <<>> /\ k \in 2..(PageLimit - 1)) =>
            /\ fetchLog = [j \in 1..Len(fetchLog) |-> j]
            /\ Len(fetchLog) <= k
            /\ table_list = PagesUpTo(Len(table_list))
            /\ (pc # "get" /\ NoFetchFailure) =>
                   /\ Len(fetchLog) = k
                   /\ table_list = PagesUpTo(k - 1)
                   /\ ret.outcome = "ok" =>
                          ret.val[1] \in organize_df(concat(PagesUpTo(k - 1)))

\* a collection has ended well on a source whose first empty page is page 199
C1_Witness ==
    /\ pc = "idle"
    /\ ret.outcome = "ok"
    /\ FirstEmpty(source) = PageLimit - 1
    /\ Len(fetchLog) = PageLimit - 1

\* C2: one _request_stock_data call issues at most retry_count + 1 GETs; every
\* GET before the last one returned a non-success status; a GET that returns
\* success ends the call (no GET follows it) and its page is what the collection
\* goes on with; the call raises the bad-status IOError exactly when
\* retry_count + 1 GETs all returned a non-success status.
C2_BoundedRetry ==
    LET n == Len(req.statuses)
    IN  /\ n <= retry_count + 1
        /\ \A j \in 1..(n - 1) : req.statuses[j] = "bad"
        /\ pc = "get" =>
               /\ req.result = "running"
               /\ n <= retry_count
               /\ n > 0 => req.statuses[n] = "bad"
        /\ (n > 0 /\ req.statuses[n] = "ok") <=> req.result = "ok"
        /\ (req.result = "ok" /\ req.tables = 1) =>
               \/ PageRows(source, req.page) = <<>>
               \/ /\ Len(table_list) = req.page
                  /\ table_list[req.page] = PageRows(source, req.page)
        /\ req.result = "NetworkFailure" <=>
               (n = retry_count + 1 /\ req.statuses[n] = "bad")
        /\ req.result = "NetworkFailure" =>
               (pc # "get" /\ ret.outcome = "NetworkFailure")

\* a request has failed after retry_count + 1 GETs
C2_Witness ==
    /\ req.result = "NetworkFailure"
    /\ Len(req.statuses) = retry_count + 1
    /\ ret.outcome = "NetworkFailure"

\* C3 as stated: a GET that times out before the retries are used up leaves the
\* request running, so that a later GET can still succeed.
C3_TimeoutConsumesRetry ==
    LET n == Len(req.statuses)
    IN  (n > 0 /\ n < retry_count + 1 /\ req.statuses[n] = "timeout") =>
            req.result = "running"

\* C3 as amended: a GET that times out ends the request and the whole call at
\* once with the Timeout exception: it is the last GET of the request, no further
\* GET is issued and nothing is returned.  Only a non-success status consumes a
\* retry: while the request is running i counts the GETs issued, all of which
\* returned a non-success status.
C3_TimeoutFatal ==
    LET n == Len(req.statuses)
    IN  /\ \A j \in 1..n :
               req.statuses[j] = "timeout" =>
                   /\ j = n
                   /\ req.result = "Timeout"
                   /\ pc # "get"
                   /\ ret.outcome = "Timeout"
                   /\ ret.val = <<>>
        /\ pc = "get" =>
               /\ i = n
               /\ \A j \in 1..n : req.statuses[j] = "bad"
        /\ req.result = "ok" => \A j \in 1..(n - 1) : req.statuses[j] = "bad"

\* a request timed out on its second GET, with retries left
C3_Witness ==
    /\ req.statuses = <<"bad", "timeout">>
    /\ req.result = "Timeout"
    /\ ret.outcome = "Timeout"

\* C4: when the request of a page has used up its retries, or the page received
\* does not hold exactly one table, the call has ended with that error whatever
\* the pages before it gave: nothing is returned, written or cached, and no page
\* after it has been requested.
C4_AbortOnFailure ==
    LET failedFetch   == req.result = "NetworkFailure"
        failedExtract == req.result = "ok" /\ req.tables # 1
    IN  (failedFetch \/ failedExtract) =>
            /\ pc # "get"
            /\ ret.outcome = IF failedFetch THEN "NetworkFailure" ELSE "FormatMismatch"
            /\ ret.val = <<>>
            /\ written = <<>>
            /\ _df_cached = <<>>
            /\ fetchLog = [j \in 1..req.page |-> j]

\* the request of page 2 used up its retries after page 1 had been collected
C4_Witness ==
    /\ req.result = "NetworkFailure"
    /\ req.page = 2
    /\ Len(table_list) = 1
    /\ ret.outcome = "NetworkFailure"

-----------------------------------------------------------------------------
(* Properties of one object and its cache (Spec)                            *)

\* C5: a get_stockdata(False) call made while a frame is cached returns at
\* once with that frame, leaves the cache as it is and issues no request (no
\* page is requested, no session created); a get_stockdata call made while
\* nothing is cached, or with force_request=True, starts one collection at page
\* 1, which goes on page by page without starting again, leaves the cache alone
\* while it runs, and when it ends well the frame organised from the collected
\* pages is both returned and cached.
C5_Caching ==
    [][LET starts == calls' = calls + 1 /\ call'.op = "get_stockdata"
       IN  /\ (starts /\ _df_cached # <<>> /\ ~call'.force) =>
                  /\ pc' = "idle"
                  /\ ret' = [outcome |-> "ok", val |-> _df_cached]
                  /\ _df_cached' = _df_cached
                  /\ fetchLog' = <<>>
                  /\ netActivity' = netActivity
                  /\ nPrivate' = nPrivate
                  /\ _request_session' = _request_session
           /\ (starts /\ (_df_cached = <<>> \/ call'.force)) =>
                  /\ pc' = "get"
                  /\ fetchLog' = <<1>>
                  /\ table_list' = <<>>
                  /\ _df_cached' = _df_cached
           /\ (pc = "get" /\ call.op = "get_stockdata") =>
                  /\ fetchLog' \in {fetchLog, Append(fetchLog, Len(fetchLog) + 1)}
                  /\ pc' = "get" => _df_cached' = _df_cached
                  /\ (pc' = "idle" /\ ret'.outcome = "ok") =>
                         /\ _df_cached' = ret'.val
                         /\ ret'.val[1] \in organize_df(concat(table_list'))
                  /\ (pc' = "idle" /\ ret'.outcome # "ok") =>
                         _df_cached' = _df_cached
      ]_vars

\* a second call, get_stockdata(False), has returned the cached frame without
\* requesting a page
C5_Witness ==
    /\ pc = "idle"
    /\ calls >= 2
    /\ call.op = "get_stockdata" /\ ~call.force
    /\ fetchLog = <<>>
    /\ netActivity
    /\ ret.outcome = "ok"
    /\ _df_cached # <<>> /\ ret.val = _df_cached

\* C9: the constructor returns an object when end is after start and raises
\* ValueError when it is not, for the dates given and for the dates the
\* defaults give; when it has raised no GET has been issued, no session has been
\* created and no call can follow.
C9_Construct ==
    obj # "unborn" =>
        /\ (query.start # NoDate /\ query.end # NoDate) =>
               (obj = "live" <=> query.end > query.start)
        /\ obj = "live" <=> _date_end > _date_start
        /\ obj = "invalid" =>
               /\ pc = "dead"
               /\ ~netActivity
               /\ nPrivate = 0
               /\ _request_session = "None"
               /\ fetchLog = <<>>

\* the constructor has raised for an end date equal to the start date
C9_Witness ==
    /\ obj = "invalid"
    /\ query.start # NoDate
    /\ query.end = query.start

-----------------------------------------------------------------------------
(* Properties of yahoo_multi_download (SpecBatch)                           *)

\* the entries of list at the places where outs holds an outcome in kinds
PickByOutcome(list, outs, kinds) ==
    LET F[n \in 0..Len(outs)] ==
            IF n = 0 THEN <<>>
            ELSE IF outs[n] \in kinds THEN Append(F[n - 1], list[n])
            ELSE F[n - 1]
    IN  F[Len(outs)]

FailureKinds == {"NetworkFailure", "FormatMismatch", "Timeout"}

\* C6: the symbols are taken in list order; list_passed holds, in list order,
\* the symbols whose write_csv returned and list_failed those whose write_csv
\* raised a bad-status or format IOError (or a Timeout); such a failure never
\* stops the loop; and when the function returns, every symbol has been
\* attempted and the result is {request: symbol_list, passed, failed} with
\* passed and failed a partition of symbol_list.
C6_Partition ==
    /\ attempted = SubSeq(symbol_list, 1, Len(attempted))
    /\ Len(outcomes) \in {Len(attempted) - 1, Len(attempted)}
    /\ list_passed = PickByOutcome(symbol_list, outcomes, {"ok"})
    /\ list_failed = PickByOutcome(symbol_list, outcomes, FailureKinds)
    /\ runner = "aborted" =>
           \/ outcomes = <<>> /\ InvalidQuery(query)
           \/ outcomes # <<>> /\ outcomes[Len(outcomes)] \notin {"ok"} \cup FailureKinds
    /\ runner = "done" =>
           /\ attempted = symbol_list
           /\ Len(outcomes) = Len(symbol_list)
           /\ \A j \in 1..Len(outcomes) : outcomes[j] \in {"ok"} \cup FailureKinds
           /\ Len(list_passed) + Len(list_failed) = Len(symbol_list)
           /\ request_result = <<[request |-> symbol_list, passed |-> list_passed,
                                  failed |-> list_failed]>>

\* the first of two symbols failed on the page format, the second passed
C6_Witness ==
    /\ runner = "done"
    /\ symbol_list = <<7203, 9020>>
    /\ outcomes = <<"FormatMismatch", "ok">>
    /\ request_result = <<[request |-> <<7203, 9020>>, passed |-> <<9020>>,
                           failed |-> <<7203>>]>>

\* C7 as stated: whatever exception the write_csv of one symbol raises, the
\* batch is not left early.
C7_NeverAbortsEarly ==
    (outcomes # <<>> /\ outcomes[Len(outcomes)] # "ok") => runner # "aborted"

\* C8: the session that yahoo_multi_download hands to every object is closed by
\* yahoo_multi_download alone and at most once; it is open while the loop runs
\* and whenever a GET is issued, every GET goes through it (no object creates a
\* session of its own), and when the function returns it has been closed once,
\* after the last symbol.
C8_SharedSessionOpen ==
    /\ Len(suppliedClosedBy) <= 1
    /\ \A j \in 1..Len(suppliedClosedBy) : suppliedClosedBy[j] = "yahoo_multi_download"
    /\ runner = "running" => supplied = "open"
    /\ pc = "get" => (supplied = "open" /\ _request_session = "supplied" /\ nPrivate = 0)
    /\ supplied = "closed" <=> runner \in {"done", "aborted"}
    /\ runner = "done" =>
           /\ suppliedClosedBy = <<"yahoo_multi_download">>
           /\ idx = Len(symbol_list) + 1

\* the second symbol is being requested through the shared session after the
\* object of the first one has been closed by __exit__
C8_Witness ==
    /\ pc = "get"
    /\ idx = 2
    /\ Len(outcomes) = 1
    /\ supplied = "open"
    /\ _request_session = "supplied"

-----------------------------------------------------------------------------
(* Properties of adjust_yahoo_ohlc (SpecAdjust)                             *)

\* the frame has a row whose Close is zero
HasZeroClose(df) ==
    /\ HasColumn(df, "Close")
    /\ \E k \in 1..Len(df.rows) : Cell(df, df.rows[k], "Close") = Num(0)

\* C10 as stated: adjust_yahoo_ohlc called on a frame with a row whose Close is
\* zero raises an exception.
C10_ZeroCloseRaises ==
    (adj_state # "ready" /\ HasColumn(adj_in, "Adj Close") /\ HasZeroClose(adj_in)) =>
        adj_state = "raised"

\* the record of the worked example and its adjusted form
ExampleRow == <<20170105, Num(100), Num(110), Num(90), Num(100), 1000, Num(95)>>
ExampleAdjusted == <<20170105, Num(95), Frac(209, 2), Frac(171, 2), Num(95), 1000>>

\* x = a * b / c for finite a, b and c # 0, by cross-multiplication
IsScaled(x, a, b, c) ==
    /\ IsFinite(x)
    /\ x.num * a.den * b.den * c.num = a.num * b.num * c.den * x.den

\* C11: when adjust_yahoo_ohlc returns, the frame returned has the columns
\* Date, Open, High, Low, Close, Volume (no Adj Close) and as many rows as the
\* input; for every input row whose Close is not zero the output row has
\* Open = Open * Adj Close / Close, High and Low likewise, Close = Adj Close,
\* Date and Volume unchanged; the example row becomes 95, 104.5, 85.5, 95; and a
\* row with Close = Adj Close keeps its Open, High, Low and Close.
C11_Adjusted ==
    adj_state = "returned" =>
        LET out == adj_ret[1]
        IN  /\ out.columns = <<"Date", "Open", "High", "Low", "Close", "Volume">>
            /\ Len(out.rows) = Len(adj_in.rows)
            /\ \A k \in 1..Len(adj_in.rows) :
                   LET r == adj_in.rows[k]
                       o == out.rows[k]
                   IN  r[5] # Num(0) =>
                           /\ o[1] = r[1]
                           /\ IsScaled(o[2], r[2], r[7], r[5])
                           /\ IsScaled(o[3], r[3], r[7], r[5])
                           /\ IsScaled(o[4], r[4], r[7], r[5])
                           /\ o[5] = r[7]
                           /\ o[6] = r[6]
                           /\ Len(o) = 6
                           /\ r = ExampleRow => o = ExampleAdjusted
                           /\ r[5] = r[7] => o = SubSeq(r, 1, 6)

\* the example row has been adjusted
C11_Witness ==
    /\ adj_state = "returned"
    /\ adj_in.rows # <<>>
    /\ adj_in.rows[1] = ExampleRow
    /\ adj_ret[1].rows[1] = ExampleAdjusted

\* C12: with inplace=False the caller's dataframe is after the call what it
\* was before it (same columns, Adj Close included, same rows) and the frame
\* returned is another object; with inplace=True the frame returned is the
\* caller's object, which now holds the adjusted data.
C12_InPlace ==
    adj_state # "ready" =>
        /\ ~adj_inplace =>
               /\ adj_df = adj_in
               /\ ~adj_same
        /\ (adj_inplace /\ adj_state = "returned") =>
               /\ adj_same
               /\ adj_df = adj_ret[1]
               /\ adj_df = Adjusted(adj_in)
               /\ adj_df # adj_in

\* a non-inplace call has returned an adjusted frame and left the caller's frame
\* with its Adj Close column
C12_Witness ==
    /\ adj_state = "returned"
    /\ ~adj_inplace
    /\ adj_in.rows # <<>>
    /\ HasColumn(adj_df, "Adj Close")
    /\ ~HasColumn(adj_ret[1], "Adj Close")
    /\ adj_df = adj_in

-----------------------------------------------------------------------------
(* Properties of organize_df (SpecOrganize)                                 *)

\* number of places of seq that hold r
Count(seq, r) == Cardinality({k \in 1..Len(seq) : seq[k] = r})

\* the sequences with the entries of seq in another order
RowOrders(seq) ==
    LET n == Len(seq)
    IN  {[k \in 1..n |-> seq[f[k]]] :
            f \in {g \in [1..n -> 1..n] : \A a, b \in 1..n : g[a] = g[b] => a = b}}

\* the Dates of the rows, in row order
DatesOf(rows) == [k \in 1..Len(rows) |-> rows[k][1]]

\* rows holds each record as often as other does
SameRecords(rows, other) ==
    /\ Len(rows) = Len(other)
    /\ \A k \in 1..Len(rows) : Count(rows, rows[k]) = Count(other, rows[k])

\* C13: when organize_df returns, the rows of the frame returned are the input
\* records (each as often as in the input, the date text replaced by its date,
\* records of equal date included), in non-decreasing order of Date; and for
\* every permutation of the input rows organize_df returns too, with the same
\* records and the same sequence of Dates (the same frame up to the order of
\* records of equal Date).
C13_SortedSameRecords ==
    org_state = "returned" =>
        LET out == org_ret[1].rows
            inp == [k \in 1..Len(org_in.rows) |->
                       [org_in.rows[k] EXCEPT ![1] = to_datetime(org_in.rows[k][1])]]
        IN  /\ SameRecords(out, inp)
            /\ \A k \in 1..(Len(out) - 1) : out[k][1] <= out[k + 1][1]
            /\ \A perm \in RowOrders(org_in.rows) :
                   /\ organize_df(perm) # {}
                   /\ \A df \in organize_df(perm) :
                          /\ SameRecords(df.rows, out)
                          /\ DatesOf(df.rows) = DatesOf(out)

\* a table with two records of one day behind a later day has been organised
C13_Witness ==
    /\ org_state = "returned"
    /\ org_in.rows = <<rNull, rA, rD>>
    /\ DatesOf(org_ret[1].rows) = <<20170105, 20170105, 20170106>>

\* two rows of the table carry the same date text
HasDuplicateDates(rows) ==
    \E a, b \in 1..Len(rows) : a # b /\ rows[a][1] = rows[b][1]

\* C14 as stated: when organize_df has returned for a table with two records of
\* the same date, it has issued a duplicate-date warning.
C14_DuplicateWarned ==
    (org_state = "returned" /\ HasDuplicateDates(org_in.rows)) =>
        "duplicate dates" \in org_warnings

-----------------------------------------------------------------------------
(* Further properties of one collection (SpecCollect, SpecCollectFair)      *)

\* C15 as stated: when page 1 is a well-formed table without rows, the call
\* that collected it ends without an exception.
C15_EmptyFirstPageOk ==
    (/\ pc = "idle"
     /\ call.op = "get_stockdata"
     /\ fetchLog = <<1>>
     /\ req.result = "ok" /\ req.tables = 1
     /\ NonEmptyPages(source) = 0) => ret.outcome = "ok"

\* C16: a collection never requests a page numbered PageLimit or more: the
\* pages requested are 1, 2, ..., p with p < PageLimit, each by one
\* _request_stock_data call that starts with no GET issued and issues at most
\* retry_count + 1 GETs whatever the earlier pages needed (hence at most
\* (PageLimit - 1) * (retry_count + 1) GETs in all); every step of the
\* collection issues one GET; when pages 1..PageLimit-1 are all non-empty and
\* no request fails, the call returns the organised concatenation of those
\* pages; and when every GET returns or raises, the call ends.
C16_Terminates ==
    /\ [](pc = "get" =>
              /\ p < PageLimit
              /\ fetchLog = [j \in 1..p |-> j]
              /\ req.page = p
              /\ i = Len(req.statuses)
              /\ Len(req.statuses) <= retry_count)
    /\ [](\A j \in 1..Len(fetchLog) : fetchLog[j] < PageLimit)
    /\ [][(pc = "get" /\ pc' = "get") =>
              \/ p' = p /\ Len(req'.statuses) = Len(req.statuses) + 1
              \/ p' = p + 1 /\ i' = 0 /\ req'.statuses = <<>>]_vars
    /\ []((/\ pc = "idle"
           /\ fetchLog # <<>>
           /\ NonEmptyPages(source) >= PageLimit - 1
           /\ NoFetchFailure) =>
              /\ Len(fetchLog) = PageLimit - 1
              /\ ret.outcome = "ok"
              /\ ret.val[1] \in organize_df(concat(PagesUpTo(PageLimit - 1))))
    /\ (pc = "get" ~> pc = "idle")

\* a collection from a source with no empty page below the limit has returned
C16_Witness ==
    /\ pc = "idle"
    /\ NonEmptyPages(source) = PageLimit
    /\ ret.outcome = "ok"
    /\ Len(fetchLog) = PageLimit - 1
    /\ Len(ret.val[1].rows) = PageLimit - 1

-----------------------------------------------------------------------------
(* Further properties of yahoo_multi_download (SpecBatch)                   *)

\* C17: the symbols are worked on one after the other in list order: while the
\* object of the symbol at position idx is constructed or requesting, it is the
\* only object open, the symbols before it have all had their outcome and the
\* symbols attempted are the first idx of the list; and whenever write_csv has
\* ended, by returning or by an exception that was caught or not, the object is
\* closed (no cached frame, no session reference) before the pause and before
\* the loop goes on, so never more than one object is open.
C17_OneAtATime ==
    /\ Cardinality(openObjects) <= 1
    /\ pc \in {"constructed", "get"} =>
           /\ openObjects = {idx}
           /\ Len(outcomes) = idx - 1
           /\ attempted = SubSeq(symbol_list, 1, idx)
    /\ pc \in {"pause", "loop", "done", "aborted"} =>
           /\ openObjects = {}
           /\ _df_cached = <<>>
           /\ _request_session = "None"
    /\ pc = "pause" =>
           /\ Len(outcomes) = idx
           /\ attempted = SubSeq(symbol_list, 1, idx)

\* the pause after a caught failure of the first of two symbols: its object is
\* closed and the second one is not yet constructed
C17_Witness ==
    /\ pc = "pause"
    /\ idx = 1
    /\ Len(symbol_list) = 2
    /\ outcomes = <<"NetworkFailure">>
    /\ openObjects = {}
    /\ _request_session = "None"

-----------------------------------------------------------------------------
(* Further properties of one object (Spec)                                  *)

\* the exceptions that end a collection
FetchErrors == {"NetworkFailure", "FormatMismatch", "ValueError", "Timeout"}

\* C18: the cache is what it was before the call when a get_stockdata call
\* fails: starting the collection, every step of it and the step that raises
\* the bad-status IOError, the format IOError, the Timeout or the ValueError of
\* an unparseable table leave _df_cached unchanged (empty stays empty, a cached
\* frame stays cached); and a get_stockdata(False) call that follows a failed
\* call on a populated cache returns the cached frame without any request.
C18_FailureKeepsCache ==
    [][/\ (pc = "idle" /\ pc' = "get") => _df_cached' = _df_cached
       /\ (pc = "get" /\ pc' = "get") => _df_cached' = _df_cached
       /\ (pc = "get" /\ pc' = "idle" /\ ret'.outcome \in FetchErrors) =>
              /\ _df_cached' = _df_cached
              /\ ret'.val = <<>>
       /\ (/\ pc = "idle" /\ ret.outcome \in FetchErrors
           /\ _df_cached # <<>>
           /\ calls' = calls + 1
           /\ call'.op = "get_stockdata" /\ ~call'.force) =>
              /\ pc' = "idle"
              /\ ret' = [outcome |-> "ok", val |-> _df_cached]
              /\ _df_cached' = _df_cached
              /\ fetchLog' = <<>>
              /\ nPrivate' = nPrivate
      ]_vars

\* a forced get_stockdata has failed on the format of page 2 while a frame was
\* cached, and the frame is still cached
C18_Witness ==
    /\ pc = "idle"
    /\ call.op = "get_stockdata" /\ call.force
    /\ ret.outcome = "FormatMismatch"
    /\ fetchLog = <<1, 2>>
    /\ _df_cached # <<>>

\* C19: close() leaves the object with no cached frame and no session
\* reference, whether it held a session of its own, the session it was given or
\* none, and does not touch the session it was given; the object is still
\* usable: the get_stockdata(False) call that follows close() starts a
\* collection at page 1 on a session that _request_stock_data creates; and the
\* object holds the session it was given only from its construction on, never
\* again once it has let go of it.
C19_CloseThenPrivate ==
    [][/\ (calls' = calls + 1 /\ call'.op = "close") =>
              /\ _df_cached' = <<>>
              /\ _request_session' = "None"
              /\ pc' = "idle"
              /\ obj' = "live"
              /\ supplied' = supplied
              /\ suppliedClosedBy' = suppliedClosedBy
       /\ (/\ pc = "idle" /\ call.op = "close"
           /\ calls' = calls + 1
           /\ call'.op = "get_stockdata" /\ ~call'.force) =>
              /\ pc' = "get"
              /\ fetchLog' = <<1>>
              /\ _request_session' = "private"
              /\ nPrivate' = nPrivate + 1
       /\ _request_session' = "supplied" =>
              (_request_session = "supplied" \/ pc = "unborn")
      ]_vars

\* an object that was given a session and then closed is collecting again, on a
\* session of its own
C19_Witness ==
    /\ pc = "get"
    /\ call.op = "get_stockdata" /\ ~call.force
    /\ calls >= 2
    /\ supplied = "open"
    /\ _request_session = "private"
    /\ nPrivate = 1

\* C20: write_csv never changes the cached frame: whatever calls were made,
\* a cached frame has all seven columns, Adj Close included; no call ends with
\* the KeyError of a missing Adj Close column; a write_csv that returned has
\* written the adjusted form of the cached frame (adjust_ohlc=True) or the
\* cached frame itself (False); and a write_csv(adjust_ohlc=True) that follows
\* one that returned returns too, writes the same data and leaves the cache as
\* it is.
C20_CacheUnadjusted ==
    /\ [](/\ _df_cached # <<>> => _df_cached[1].columns = StdColumns
          /\ ret.outcome # "KeyError"
          /\ (pc = "idle" /\ call.op = "write_csv" /\ ret.outcome = "ok") =>
                 /\ _df_cached # <<>>
                 /\ written = <<IF call.adjust THEN Adjusted(_df_cached[1])
                                ELSE _df_cached[1]>>)
    /\ [][(/\ pc = "idle" /\ call.op = "write_csv" /\ call.adjust
           /\ ret.outcome = "ok"
           /\ calls' = calls + 1
           /\ call'.op = "write_csv" /\ call'.adjust) =>
              /\ pc' = "idle"
              /\ ret'.outcome = "ok"
              /\ written' = written
              /\ _df_cached' = _df_cached
          ]_vars

\* a write_csv(adjust_ohlc=True) served from the cache has written the adjusted
\* frame, and the cached frame still has its Adj Close column
C20_Witness ==
    /\ pc = "idle"
    /\ calls >= 2
    /\ call.op = "write_csv" /\ call.adjust
    /\ fetchLog = <<>>
    /\ ret.outcome = "ok"
    /\ _df_cached # <<>>
    /\ HasColumn(_df_cached[1], "Adj Close")
    /\ written = <<Adjusted(_df_cached[1])>>
    /\ written # _df_cached

====
